---- MODULE Spec2Model ----
(***************************************************************************)
(* Round-robin balancer of siwacarn/lab-loadbalance.                       *)
(*                                                                         *)
(* The repository holds the balancer three times:                          *)
(*   "request" : src/request/loadbalance.go (package request, the copy     *)
(*               the program's main wires up),                             *)
(*   "mainA"   : src/request/main.go lines 1-162,                          *)
(*   "mainB"   : src/request/main.go lines 164-301.                        *)
(* The operations take the copy as parameter pkg where the copies differ.  *)
(*                                                                         *)
(* A *url.URL is a record [s, id]: s is what String() returns, id tells    *)
(* apart distinct objects with the same string (pointer identity).         *)
(* removedUrls is a map keyed by pointer, so it is a set of such records;  *)
(* activeUrls is a slice of pointers, compared by String() in RemoveURL.   *)
(***************************************************************************)
EXTENDS Integers, Sequences, FiniteSets, TLC

\* ---------------------------------------------------------------- bounds
\* Longest backend list handed to NewRoundRobinBalancer.
MaxBackends == 3
\* RemoveURL is not called with a new pointer once activeUrls and
\* removedUrls hold this many entries together.
MaxEntries == 3
\* GetNextURL is not called once currentIndex has reached this value.
MaxIndex == 6
\* Recovery is followed on balancers of at most MaxLiveBackends backends and
\* for SendRequest calls that begin before currentIndex has reached
\* MaxLiveIndex.
MaxLiveBackends == 2
MaxLiveIndex == 3
\* The goroutines of Callers run on balancers of at most this many backends
\* and do not call GetNextURL once currentIndex has reached MaxFineIndex.
MaxFineBackends == 2
MaxFineIndex == 4

\* ------------------------------------------------------------- constants
StatusOK == 200
\* statuses a backend may answer with besides 200: another 2xx and a 5xx
OtherStatuses == {204, 500}

\* Hosts in the order a configuration names them; BadHost is a backend
\* whose String() does not parse.
HostOrder == <<"E1", "E2", "E3", "E4", "E5">>
BadHost == "BAD"
Hosts == {HostOrder[i] : i \in 1..Len(HostOrder)}
Strings == Hosts \cup {BadHost}

NoURL == [s |-> "nil", id |-> 0]

Range(f) == {f[i] : i \in DOMAIN f}

\* ------------------------------------------------------- url.URL helpers
\* u.String()
String(u) == u.s

\* url.Parse(str) returns err != nil
ParseFails(str) == str = BadHost

\* url.Parse(str): a new object, distinct from every object in live, whose
\* String() is str.
Parse(str, live) ==
    LET used == {u.id : u \in {v \in live : v.s = str}}
    IN  [s |-> str, id |-> CHOOSE n \in 0..Cardinality(used) :
                              /\ n \notin used
                              /\ \A m \in 0..Cardinality(used) : m \notin used => n <= m]

\* An HTTP round trip: a transport error, or a response with a status.
Responses ==
    {[err |-> TRUE, status |-> 0]} \cup
    {[err |-> FALSE, status |-> st] : st \in {StatusOK} \cup OtherStatuses}

\* --------------------------------------------------------- NewRoundRobinBalancer
\* The configurations: distinct backends, the parsable ones named in
\* HostOrder, the one that does not parse (if any) first.
Ordered(cfg) ==
    LET good == SelectSeq(cfg, LAMBDA x : ~ParseFails(x))
    IN  /\ good = SubSeq(HostOrder, 1, Len(good))
        /\ \A i \in 2..Len(cfg) : ~ParseFails(cfg[i])

Configs ==
    UNION {{cfg \in [1..n -> Strings] :
                /\ \A i, j \in 1..n : i # j => cfg[i] # cfg[j]
                /\ Ordered(cfg)} : n \in 0..MaxBackends}

RECURSIVE NewActive(_, _)
\* the loop of NewRoundRobinBalancer over backendUrls[k..]
NewActive(cfg, k) ==
    IF k > Len(cfg) THEN <<>>
    ELSE IF ParseFails(cfg[k]) THEN NewActive(cfg, k + 1)
    ELSE <<Parse(cfg[k], {})>> \o NewActive(cfg, k + 1)

\* ------------------------------------------------------------ GetNextURL
\* The slot GetNextURL reads, for the counter value idx found at the call.
Slot(idx, n) == idx % n

\* main.go:48-49 and main.go:210-211: the counter is advanced first and the
\* new value indexes the slice.
SlotMain(idx, n) == (idx + 1) % n

SlotOf(pkg, idx, n) == IF pkg = "request" THEN Slot(idx, n) ELSE SlotMain(idx, n)

\* [url, idx]: the returned pointer (NoURL for nil) and the counter after
\* the call.
\* (variant: the counter is kept below the length of the slice)
GetNextURLMutReset(pkg, active, idx) ==
    IF Len(active) = 0
    THEN [url |-> NoURL, idx |-> idx]
    ELSE [url |-> active[SlotOf(pkg, idx, Len(active)) + 1],
          idx |-> (idx + 1) % Len(active)]
\* (variant: nil also for a single entry)
GetNextURLMutNilAtOne(pkg, active, idx) ==
    IF Len(active) <= 1
    THEN [url |-> NoURL, idx |-> idx]
    ELSE [url |-> active[SlotOf(pkg, idx, Len(active)) + 1], idx |-> idx + 1]
\* (variant: the counter is not advanced)
GetNextURLMutNoAdd(pkg, active, idx) ==
    IF Len(active) = 0
    THEN [url |-> NoURL, idx |-> idx]
    ELSE [url |-> active[SlotOf(pkg, idx, Len(active)) + 1], idx |-> idx]
GetNextURL(pkg, active, idx) ==
    IF Len(active) = 0
    THEN [url |-> NoURL, idx |-> idx]
    ELSE [url |-> active[SlotOf(pkg, idx, Len(active)) + 1], idx |-> idx + 1]

\* ------------------------------------------------------------- RemoveURL
\* Position of the first entry of active whose String() is str, 0 if none.
FirstMatch(active, str) ==
    IF \E i \in 1..Len(active) : String(active[i]) = str
    THEN CHOOSE i \in 1..Len(active) :
            /\ String(active[i]) = str
            /\ \A j \in 1..(i - 1) : String(active[j]) # str
    ELSE 0

DropAt(seq, i) == SubSeq(seq, 1, i - 1) \o SubSeq(seq, i + 1, Len(seq))

\* the for loop of RemoveURL: append(active[:i], active[i+1:]...) and break
\* (variant: entries compared by pointer, not by String())
ExciseMutIdentity(active, arg) ==
    IF \E i \in 1..Len(active) : active[i] = arg
    THEN DropAt(active, CHOOSE i \in 1..Len(active) : active[i] = arg)
    ELSE active
Excise(active, arg) ==
    LET i == FirstMatch(active, String(arg))
    IN  IF i = 0 THEN active ELSE DropAt(active, i)

\* r.removedUrls[urlToRemove] = struct{}{}
\* (variant: only an empty map takes the key)
MarkRemovedMutOnlyFirst(removed, arg) == IF removed = {} THEN {arg} ELSE removed
MarkRemoved(removed, arg) == removed \cup {arg}

\* ---------------------------------------------------- CheckAndRestoreUrls
\* err == nil && resp.StatusCode == 200
\* (variant: any 2xx status)
ProbeOkMutAny2xx(resp) == ~resp.err /\ resp.status \div 100 = 2
ProbeOk(resp) == ~resp.err /\ resp.status = StatusOK

\* main.go:233: err == nil
ProbeOkMainB(resp) == ~resp.err

ProbeOkOf(pkg, resp) == IF pkg = "mainB" THEN ProbeOkMainB(resp) ELSE ProbeOk(resp)

\* The keys the range still produces after the probe of one key was
\* answered with resp: the loop has no break, all that were left.
\* (variant: a transport error ends the range)
RestMutBreak(left, resp) == IF resp.err THEN {} ELSE left
Rest(left, resp) == left

\* activeUrls and removedUrls after a successful probe of key: the string is
\* parsed again (an object distinct from those in kept), appended, and the
\* key deleted.
\* (variant: the key is not deleted)
RestoreMutNoDelete(active, removed, key, kept) ==
    [active |-> Append(active, Parse(String(key), kept)),
     removed |-> removed]
Restore(active, removed, key, kept) ==
    [active |-> Append(active, Parse(String(key), kept)),
     removed |-> removed \ {key}]

\* ------------------------------------------------------------------ state
VARIABLES
    backends,      \* the backendUrls handed to NewRoundRobinBalancer (their strings)
    activeUrls,    \* r.activeUrls
    removedUrls,   \* r.removedUrls (the keys)
    currentIndex,  \* r.currentIndex
    lock,          \* r.lock: "free", or "prober" during CheckAndRestoreUrls
    dpc,           \* the caller's goroutine: where it is in SendRequest
    serverURL,     \* SendRequest's serverURL
    ppc,           \* the prober's goroutine: where it is in CheckAndRestoreUrls
    toVisit,       \* keys the range over removedUrls has yet to produce
    cur,           \* urlStr, the key being probed
    hist,          \* observation: GetNextURL's returns
    call,          \* observation: the running or last SendRequest call
    tick,          \* observation: the running or last CheckAndRestoreUrls
    cpc,           \* goroutines calling SendRequest side by side: where each is
    loc,           \* their locals: serverURL and the counter value loaded
    snap,          \* observation: the balancer as each found it on taking the lock
    healthy        \* environment: the endpoints that answer every probe with 200 from now on

vars == <<backends, activeUrls, removedUrls, currentIndex, lock, dpc, serverURL,
          ppc, toVisit, cur, hist, call, tick, cpc, loc, snap, healthy>>

balancer == <<activeUrls, removedUrls, currentIndex>>
dispatcher == <<dpc, serverURL, call>>
prober == <<lock, ppc, toVisit, cur, tick>>
fine == <<cpc, loc, snap>>

\* The goroutines that call SendRequest side by side.
Callers == {"c1", "c2"}
NoLocals == [url |-> NoURL, idx |-> 0]
NoSnap == [active |-> <<>>, removed |-> {}, idx |-> 0]

\* every pointer some variable of the program holds
Live == Range(activeUrls) \cup removedUrls \cup toVisit \cup ({serverURL, cur} \ {NoURL})

\* the pointers still held once the key cur is deleted from removedUrls and
\* the range goes on
Kept == Range(activeUrls) \cup (removedUrls \ {cur}) \cup toVisit \cup ({serverURL} \ {NoURL})

\* call: what the running SendRequest call has done: its numbers of requests
\* and of RemoveURL calls, whether a body was logged, the outcome, whether
\* an answer had a status other than 200 (non200) and whether GetNextURL
\* was called after such an answer (again). While the call is plain (the
\* prober has not moved since it began and no answer had a status other
\* than 200) it also holds the state the call began in (active0, removed0,
\* idx0) and the strings it sent a request to (tried).
NoCall == [plain |-> FALSE, active0 |-> <<>>, removed0 |-> {}, idx0 |-> 0,
           tried |-> {}, requests |-> 0, removes |-> 0, non200 |-> FALSE,
           again |-> FALSE, logged |-> FALSE, outcome |-> "none"]

\* c, no longer plain
Blur(c) == [NoCall EXCEPT !.non200 = c.non200, !.again = c.again,
                          !.logged = c.logged, !.outcome = c.outcome]

\* tick: the state CheckAndRestoreUrls was entered in, the keys whose probe
\* came back without transport error and with status 200 (ok) and the keys
\* that got any other answer or no request at all (bad).
NoTick == [active0 |-> <<>>, removed0 |-> {}, ok |-> {}, bad |-> {}]

Init ==
    /\ backends \in Configs
    /\ activeUrls = NewActive(backends, 1)
    /\ removedUrls = {}
    /\ currentIndex = 0
    /\ lock = "free"
    /\ dpc = "idle"
    /\ serverURL = NoURL
    /\ ppc = "idle"
    /\ toVisit = {}
    /\ cur = NoURL
    /\ hist = [window |-> <<>>, pristine |-> TRUE, gets |-> 0]
    /\ call = NoCall
    /\ tick = NoTick
    /\ cpc = [c \in Callers |-> "idle"]
    /\ loc = [c \in Callers |-> NoLocals]
    /\ snap = [c \in Callers |-> NoSnap]
    /\ healthy = {}

\* ------------------------------------------------------------ observation
\* hist after a GetNextURL call that returned r
Returned(r) ==
    IF r.url = NoURL THEN hist
    ELSE [hist EXCEPT !.window = Append(@, r.url), !.gets = @ + 1]

\* hist after activeUrls became active
Resized(active) ==
    IF active = activeUrls THEN hist
    ELSE [hist EXCEPT !.window = <<>>, !.pristine = FALSE]

\* call after a step of the prober
Disturbed == IF dpc = "idle" THEN call ELSE Blur(call)

\* ------------------------------------------------- calls of the API itself
\* A caller other than SendRequest (the tests) calls GetNextURL.
CallGetNextURL(pkg) ==
    /\ dpc = "idle"
    /\ lock = "free"
    /\ currentIndex < MaxIndex
    /\ LET r == GetNextURL(pkg, activeUrls, currentIndex)
       IN  /\ currentIndex' = r.idx
           /\ hist' = Returned(r)
    /\ UNCHANGED <<backends, healthy, fine, activeUrls, removedUrls, dispatcher, prober>>

\* The first host no backend of the configuration names.
Stranger ==
    HostOrder[CHOOSE i \in 1..Len(HostOrder) :
                 /\ HostOrder[i] \notin Range(backends)
                 /\ \A j \in 1..(i - 1) : HostOrder[j] \in Range(backends)]

InActive(str) == \E i \in 1..Len(activeUrls) : String(activeUrls[i]) = str
InRemoved(str) == \E u \in removedUrls : String(u) = str

\* The pointers a caller hands to RemoveURL for an endpoint that is active:
\* the stored entry, or an object of its own with the same string (as
\* TestRemoveURL does).
ActiveArgs ==
    Range(activeUrls) \cup {Parse(String(u), Live) : u \in Range(activeUrls)}

\* The pointers of any other call: a key of removedUrls, or an object of the
\* caller's own for a configured backend that is not active or for a host
\* that was never configured.
OtherArgs ==
    {u \in removedUrls : ~InActive(String(u))} \cup
    {Parse(str, Live) : str \in
        {x \in Range(backends) \cup {Stranger} :
            /\ ~InActive(x)
            /\ Len(activeUrls) + Cardinality(removedUrls) < MaxEntries}}

\* A caller other than SendRequest (the tests) calls RemoveURL(arg).
CallRemoveURL(args) ==
    /\ dpc = "idle"
    /\ lock = "free"
    /\ \E arg \in args :
          /\ removedUrls' = MarkRemoved(removedUrls, arg)
          /\ activeUrls' = Excise(activeUrls, arg)
          /\ hist' = Resized(Excise(activeUrls, arg))
    /\ UNCHANGED <<backends, healthy, fine, currentIndex, dispatcher, prober>>

\* RemoveURL(E) for an E that is in activeUrls.
CallRemoveActive == CallRemoveURL(ActiveArgs)

\* RemoveURL(E) for an E that is not in activeUrls.
CallRemoveOther == CallRemoveURL(OtherArgs)

\* ------------------------------------------------------------ SendRequest
\* The caller enters SendRequest.
SendRequestBegin ==
    /\ dpc = "idle"
    /\ dpc' = "selecting"
    /\ call' = IF ppc = "idle"
               THEN [NoCall EXCEPT !.plain = TRUE, !.active0 = activeUrls,
                                   !.removed0 = removedUrls, !.idx0 = currentIndex,
                                   !.outcome = "running"]
               ELSE [NoCall EXCEPT !.outcome = "running"]
    /\ UNCHANGED <<backends, healthy, fine, balancer, serverURL, prober, hist>>

\* serverURL := balancer.GetNextURL(), the nil check and
\* http.NewRequestWithContext.
SendSelect(pkg) ==
    /\ dpc = "selecting"
    /\ lock = "free"
    /\ currentIndex < MaxIndex
    /\ LET r == GetNextURL(pkg, activeUrls, currentIndex)
       IN  /\ currentIndex' = r.idx
           /\ hist' = Returned(r)
           /\ IF r.url = NoURL
              THEN /\ dpc' = "done"
                   /\ serverURL' = NoURL
                   /\ call' = [call EXCEPT !.again = call.non200, !.outcome = "NO_SERVERS"]
              ELSE IF ParseFails(String(r.url))
              THEN /\ dpc' = "done"
                   /\ serverURL' = NoURL
                   /\ call' = [call EXCEPT !.again = call.non200, !.outcome = "REQUEST_ERROR"]
              ELSE /\ dpc' = "requesting"
                   /\ serverURL' = r.url
                   /\ call' = IF call.plain
                              THEN [call EXCEPT !.requests = @ + 1,
                                                !.tried = @ \cup {String(r.url)}]
                              ELSE [call EXCEPT !.again = call.non200]
    /\ UNCHANGED <<backends, healthy, fine, activeUrls, removedUrls, prober>>

\* What SendRequest does with the answer resp of http.DefaultClient.Do
\* (bodyOk: io.ReadAll succeeds): the next place and the outcome.
\* (variant: a 200 does not leave the loop)
AnsweredMutNoBreak(pkg, resp, bodyOk) ==
    IF resp.err THEN [pc |-> "removing", outcome |-> "running"]
    ELSE [pc |-> "selecting", outcome |-> "running"]
Answered(pkg, resp, bodyOk) ==
    IF resp.err THEN [pc |-> "removing", outcome |-> "running"]
    ELSE IF resp.status = StatusOK
    THEN [pc |-> "done", outcome |-> IF bodyOk THEN "SUCCESS" ELSE "BODY_READ_ERROR"]
    ELSE IF pkg = "mainB"
    THEN [pc |-> "done", outcome |-> "NON_SUCCESS_STATUS"]
    ELSE [pc |-> "selecting", outcome |-> "running"]

\* http.DefaultClient.Do(req) returns.
SendResponse(pkg) ==
    /\ dpc = "requesting"
    /\ \E resp \in Responses, bodyOk \in BOOLEAN :
          LET a == Answered(pkg, resp, bodyOk)
          IN  /\ dpc' = a.pc
              /\ serverURL' = IF a.pc = "removing" THEN serverURL ELSE NoURL
              /\ call' = IF ~resp.err /\ resp.status # StatusOK
                         THEN [Blur(call) EXCEPT !.non200 = TRUE, !.outcome = a.outcome]
                         ELSE [call EXCEPT !.outcome = a.outcome,
                                           !.logged = (~resp.err /\ resp.status = StatusOK /\ bodyOk)]
    /\ UNCHANGED <<backends, healthy, fine, balancer, prober, hist>>

\* balancer.RemoveURL(serverURL) after a transport error, then goto next
\* (main.go:251-252: then return).
SendRemove(pkg) ==
    /\ dpc = "removing"
    /\ lock = "free"
    /\ removedUrls' = MarkRemoved(removedUrls, serverURL)
    /\ activeUrls' = Excise(activeUrls, serverURL)
    /\ hist' = Resized(Excise(activeUrls, serverURL))
    /\ serverURL' = NoURL
    /\ dpc' = IF pkg = "mainB" THEN "done" ELSE "selecting"
    /\ call' = [call EXCEPT !.removes = IF call.plain THEN @ + 1 ELSE @,
                            !.outcome = IF pkg = "mainB" THEN "TRANSPORT_FAILURE" ELSE @]
    /\ UNCHANGED <<backends, healthy, fine, currentIndex, prober>>

\* SendRequest has returned; the caller goes on.
SendRequestReturn ==
    /\ dpc = "done"
    /\ dpc' = "idle"
    /\ call' = NoCall
    /\ UNCHANGED <<backends, healthy, fine, balancer, serverURL, prober, hist>>

\* ---------------------------------------------------- CheckAndRestoreUrls
\* r.lock.Lock() and the start of the range over removedUrls.
TickBegin ==
    /\ ppc = "idle"
    /\ lock = "free"
    /\ lock' = "prober"
    /\ ppc' = "ranging"
    /\ toVisit' = removedUrls
    /\ tick' = [NoTick EXCEPT !.active0 = activeUrls, !.removed0 = removedUrls]
    /\ call' = Disturbed
    /\ UNCHANGED <<backends, healthy, fine, balancer, dpc, serverURL, cur, hist>>

\* The range produces the next key and the probe is sent; a key whose
\* request cannot be built is skipped (continue).
TickIssue ==
    /\ ppc = "ranging"
    /\ \E u \in toVisit :
          /\ toVisit' = toVisit \ {u}
          /\ IF ParseFails(String(u))
             THEN /\ tick' = [tick EXCEPT !.bad = @ \cup {u}]
                  /\ UNCHANGED <<ppc, cur>>
             ELSE /\ ppc' = "probing"
                  /\ cur' = u
                  /\ UNCHANGED tick
    /\ call' = Disturbed
    /\ UNCHANGED <<backends, healthy, fine, balancer, lock, dpc, serverURL, hist>>

\* The probe of cur returns: on success the key is parsed again, appended
\* to activeUrls and deleted from removedUrls.
TickResponse(pkg) ==
    /\ ppc = "probing"
    /\ \E resp \in Responses :
          /\ IF ProbeOkOf(pkg, resp) /\ ~ParseFails(String(cur))
             THEN LET r == Restore(activeUrls, removedUrls, cur, Kept)
                  IN  /\ activeUrls' = r.active
                      /\ removedUrls' = r.removed
                      /\ hist' = Resized(r.active)
             ELSE UNCHANGED <<activeUrls, removedUrls, hist>>
          /\ toVisit' = Rest(toVisit, resp)
          /\ tick' = IF ~resp.err /\ resp.status = StatusOK
                     THEN [tick EXCEPT !.ok = @ \cup {cur}]
                     ELSE [tick EXCEPT !.bad = @ \cup {cur}]
    /\ ppc' = "ranging"
    /\ cur' = NoURL
    /\ call' = Disturbed
    /\ UNCHANGED <<backends, healthy, fine, currentIndex, lock, dpc, serverURL>>

\* The range is over: the deferred r.lock.Unlock().
TickEnd ==
    /\ ppc = "ranging"
    /\ toVisit = {}
    /\ ppc' = "idle"
    /\ lock' = "free"
    /\ tick' = NoTick
    /\ call' = Disturbed
    /\ UNCHANGED <<backends, healthy, fine, balancer, toVisit, cur, dpc, serverURL, hist>>

\* ---------------------------------------------------------- specifications
\* The program: the caller's goroutine (SendRequest, and the calls the tests
\* make) and the prober's goroutine.
Program(pkg) ==
    \/ CallGetNextURL(pkg)
    \/ CallRemoveActive
    \/ SendRequestBegin
    \/ SendSelect(pkg)
    \/ SendResponse(pkg)
    \/ SendRemove(pkg)
    \/ SendRequestReturn
    \/ TickBegin
    \/ TickIssue
    \/ TickResponse(pkg)
    \/ TickEnd

\* package request (loadbalance.go)
Next == Program("request")

Spec == Init /\ [][Next]_vars

\* package main, first copy (main.go:1-162)
NextMainA == Program("mainA")

SpecMainA == Init /\ [][NextMainA]_vars

\* package main, second copy (main.go:164-301)
NextMainB == Program("mainB")

SpecMainB == Init /\ [][NextMainB]_vars

\* package request under any sequence of calls of the API: RemoveURL is
\* also called for endpoints that are not active.
NextAny ==
    \/ CallGetNextURL("request")
    \/ CallRemoveActive
    \/ CallRemoveOther
    \/ TickBegin
    \/ TickIssue
    \/ TickResponse("request")
    \/ TickEnd

SpecAny == Init /\ [][NextAny]_vars

\* ------------------------------------------- SendRequest from two goroutines
\* The same code, statement by statement, run by the goroutines of Callers
\* side by side with the prober: r.lock is taken and released as
\* GetNextURL, RemoveURL and CheckAndRestoreUrls do it.

\* r.lock.Lock() returns only when the mutex is free.
\* (variant: Lock returns at once)
CanLockMutAlways(l) == TRUE
CanLock(l) == l = "free"

\* the places inside the critical sections of GetNextURL and RemoveURL
InCS(c) == cpc[c] \in {"getLen", "getLoad", "getRead", "getAdd", "remMark", "remLoop"}

\* every pointer some variable of the program or of a caller holds
FineLive == Live \cup ({loc[c].url : c \in Callers} \ {NoURL})

Snapshot == [active |-> activeUrls, removed |-> removedUrls, idx |-> currentIndex]

\* A goroutine enters SendRequest: for { next: ...
FineBegin(c) ==
    /\ cpc[c] = "idle"
    /\ Len(backends) <= MaxFineBackends
    /\ cpc' = [cpc EXCEPT ![c] = "get"]
    /\ UNCHANGED <<backends, healthy, balancer, dispatcher, prober, hist, loc, snap>>

\* GetNextURL: r.lock.Lock()
FineGetLock(c) ==
    /\ cpc[c] = "get"
    /\ currentIndex < MaxFineIndex
    /\ CanLock(lock)
    /\ lock' = c
    /\ cpc' = [cpc EXCEPT ![c] = "getLen"]
    /\ snap' = [snap EXCEPT ![c] = Snapshot]
    /\ UNCHANGED <<backends, healthy, balancer, dispatcher, ppc, toVisit, cur, tick, hist, loc>>

\* GetNextURL: if len(r.activeUrls) == 0 { return nil }, and SendRequest
\* returns on nil.
FineGetLen(c) ==
    /\ cpc[c] = "getLen"
    /\ IF Len(activeUrls) = 0
       THEN /\ lock' = "free"
            /\ cpc' = [cpc EXCEPT ![c] = "idle"]
            /\ snap' = [snap EXCEPT ![c] = NoSnap]
       ELSE /\ cpc' = [cpc EXCEPT ![c] = "getLoad"]
            /\ UNCHANGED <<lock, snap>>
    /\ UNCHANGED <<backends, healthy, balancer, dispatcher, ppc, toVisit, cur, tick, hist, loc>>

\* GetNextURL: currentIndex := atomic.LoadUint64(&r.currentIndex)
FineGetLoad(c) ==
    /\ cpc[c] = "getLoad"
    /\ loc' = [loc EXCEPT ![c].idx = currentIndex]
    /\ cpc' = [cpc EXCEPT ![c] = "getRead"]
    /\ UNCHANGED <<backends, healthy, balancer, dispatcher, prober, hist, snap>>

\* GetNextURL: url := r.activeUrls[currentIndex%uint64(len(r.activeUrls))]
\* (on an empty slice the division panics)
FineGetRead(c) ==
    /\ cpc[c] = "getRead"
    /\ IF Len(activeUrls) = 0
       THEN /\ cpc' = [cpc EXCEPT ![c] = "panicked"]
            /\ UNCHANGED loc
       ELSE /\ loc' = [loc EXCEPT ![c].url =
                          activeUrls[Slot(loc[c].idx, Len(activeUrls)) + 1]]
            /\ cpc' = [cpc EXCEPT ![c] = "getAdd"]
    /\ UNCHANGED <<backends, healthy, balancer, dispatcher, prober, hist, snap>>

\* GetNextURL: atomic.AddUint64(&r.currentIndex, 1), return url (the
\* deferred Unlock), and in SendRequest http.NewRequestWithContext.
FineGetAdd(c) ==
    /\ cpc[c] = "getAdd"
    /\ currentIndex' = currentIndex + 1
    /\ lock' = "free"
    /\ snap' = [snap EXCEPT ![c] = NoSnap]
    /\ IF ParseFails(String(loc[c].url))
       THEN /\ cpc' = [cpc EXCEPT ![c] = "idle"]
            /\ loc' = [loc EXCEPT ![c] = NoLocals]
       ELSE /\ cpc' = [cpc EXCEPT ![c] = "requesting"]
            /\ loc' = [loc EXCEPT ![c].idx = 0]
    /\ UNCHANGED <<backends, healthy, activeUrls, removedUrls, dispatcher, ppc, toVisit, cur,
                   tick, hist>>

\* http.DefaultClient.Do(req) returns: a transport error leads to RemoveURL,
\* a 200 ends the call, any other status leads back to GetNextURL.
FineResponse(c) ==
    /\ cpc[c] = "requesting"
    /\ \E resp \in Responses, bodyOk \in BOOLEAN :
          LET a == Answered("request", resp, bodyOk)
          IN  /\ cpc' = [cpc EXCEPT ![c] = IF a.pc = "removing" THEN "remove"
                                            ELSE IF a.pc = "selecting" THEN "get"
                                            ELSE "idle"]
              /\ loc' = IF a.pc = "removing" THEN loc
                        ELSE [loc EXCEPT ![c] = NoLocals]
    /\ UNCHANGED <<backends, healthy, balancer, dispatcher, prober, hist, snap>>

\* RemoveURL: r.lock.Lock()
FineRemoveLock(c) ==
    /\ cpc[c] = "remove"
    /\ CanLock(lock)
    /\ lock' = c
    /\ cpc' = [cpc EXCEPT ![c] = "remMark"]
    /\ snap' = [snap EXCEPT ![c] = Snapshot]
    /\ UNCHANGED <<backends, healthy, balancer, dispatcher, ppc, toVisit, cur, tick, hist, loc>>

\* RemoveURL: r.removedUrls[urlToRemove] = struct{}{}
FineRemoveMark(c) ==
    /\ cpc[c] = "remMark"
    /\ removedUrls' = MarkRemoved(removedUrls, loc[c].url)
    /\ cpc' = [cpc EXCEPT ![c] = "remLoop"]
    /\ UNCHANGED <<backends, healthy, activeUrls, currentIndex, dispatcher, prober, hist, loc, snap>>

\* RemoveURL: the loop over activeUrls, the deferred Unlock, and goto next.
FineRemoveLoop(c) ==
    /\ cpc[c] = "remLoop"
    /\ activeUrls' = Excise(activeUrls, loc[c].url)
    /\ lock' = "free"
    /\ cpc' = [cpc EXCEPT ![c] = "get"]
    /\ loc' = [loc EXCEPT ![c] = NoLocals]
    /\ snap' = [snap EXCEPT ![c] = NoSnap]
    /\ UNCHANGED <<backends, healthy, removedUrls, currentIndex, dispatcher, ppc, toVisit, cur,
                   tick, hist>>

\* CheckAndRestoreUrls: the probe of cur returns; on success
\* r.activeUrls = append(r.activeUrls, parsedURL).
FineTickResponse ==
    /\ ppc = "probing"
    /\ \E resp \in Responses :
          IF ProbeOk(resp) /\ ~ParseFails(String(cur))
          THEN /\ activeUrls' = Append(activeUrls, Parse(String(cur), FineLive))
               /\ ppc' = "deleting"
               /\ UNCHANGED <<toVisit, cur>>
          ELSE /\ ppc' = "ranging"
               /\ cur' = NoURL
               /\ toVisit' = Rest(toVisit, resp)
               /\ UNCHANGED activeUrls
    /\ UNCHANGED <<backends, healthy, removedUrls, currentIndex, lock, tick, dispatcher, hist, fine>>

\* CheckAndRestoreUrls: delete(r.removedUrls, urlStr)
FineTickDelete ==
    /\ ppc = "deleting"
    /\ removedUrls' = removedUrls \ {cur}
    /\ ppc' = "ranging"
    /\ cur' = NoURL
    /\ UNCHANGED <<backends, healthy, activeUrls, currentIndex, lock, toVisit, tick, dispatcher,
                   hist, fine>>

NextFine ==
    \/ \E c \in Callers :
          \/ FineBegin(c)
          \/ FineGetLock(c)
          \/ FineGetLen(c)
          \/ FineGetLoad(c)
          \/ FineGetRead(c)
          \/ FineGetAdd(c)
          \/ FineResponse(c)
          \/ FineRemoveLock(c)
          \/ FineRemoveMark(c)
          \/ FineRemoveLoop(c)
    \/ TickBegin
    \/ TickIssue
    \/ FineTickResponse
    \/ FineTickDelete
    \/ TickEnd

SpecFine == Init /\ [][NextFine]_vars

\* ------------------------------------------------------------- recovery
\* main's two goroutines, with backends that recover: from the step Recover
\* on, every probe of the endpoint is answered with status 200.
Recover ==
    /\ healthy = {}
    /\ \E u \in removedUrls : healthy' = {String(u)}
    /\ UNCHANGED <<backends, balancer, dispatcher, prober, hist, fine>>

\* main: request.SendRequest(balancer)
LiveSendBegin ==
    /\ Len(backends) <= MaxLiveBackends
    /\ currentIndex < MaxLiveIndex
    /\ SendRequestBegin

\* the probe of cur returns; a healthy endpoint answers 200
LiveTickResponse ==
    /\ TickResponse("request")
    /\ String(cur) \in healthy => tick'.ok = tick.ok \cup {cur}

NextLive ==
    \/ LiveSendBegin
    \/ SendSelect("request")
    \/ SendResponse("request")
    \/ SendRemove("request")
    \/ SendRequestReturn
    \/ Recover
    \/ TickBegin
    \/ TickIssue
    \/ LiveTickResponse
    \/ TickEnd

\* The prober's loop (part_000:28-33) runs for ever, the mutex is granted to
\* a goroutine that keeps waiting for it, and every probe returns.
Fairness ==
    /\ WF_vars(TickBegin)
    /\ WF_vars(TickIssue)
    /\ WF_vars(LiveTickResponse)
    /\ WF_vars(TickEnd)

SpecLive == Init /\ [][NextLive]_vars /\ Fairness

\* ------------------------------------------------------------------ claims
\* the strings of the backends that parsed, in configuration order
Configured == SelectSeq(backends, LAMBDA x : ~ParseFails(x))

\* no critical section of the balancer is running
AtRest == lock = "free"

\* C1: after any sequence of RemoveURL calls (with any argument) and
\* CheckAndRestoreUrls ticks, comparing endpoints by String(), no endpoint
\* is both in activeUrls and in removedUrls and activeUrls holds no endpoint
\* twice.
C1_ActiveRemovedDisjointNoDuplicates ==
    AtRest =>
        /\ \A str \in Strings : ~(InActive(str) /\ InRemoved(str))
        /\ \A i, j \in 1..Len(activeUrls) :
              i # j => String(activeUrls[i]) # String(activeUrls[j])

\* C2: every GetNextURL call returns activeUrls[currentIndex mod len] for
\* the value of currentIndex before the call and advances currentIndex by
\* one; on a balancer whose activeUrls never changed the i-th call returns
\* the i-th configured endpoint.
\* (The window holds the returns since activeUrls last changed, so the
\* call that returned window[i] found the counter at
\* currentIndex - Len(window) + i - 1.)
C2_ReturnsSlotOfCounterThenAdvances ==
    /\ hist.gets = currentIndex
    /\ \A i \in 1..Len(hist.window) :
          hist.window[i] =
              activeUrls[((currentIndex - Len(hist.window) + i - 1) % Len(activeUrls)) + 1]
    /\ hist.pristine =>
          \A i \in 1..Len(hist.window) :
              i <= Len(Configured) => String(hist.window[i]) = Configured[i]

\* a fresh balancer of three endpoints has answered its first call
C2_Witness ==
    /\ hist.pristine
    /\ Len(activeUrls) = 3
    /\ Len(hist.window) = 1

\* the entry of activeUrls that is the pointer u
Pos(u) == CHOOSE i \in 1..Len(activeUrls) : activeUrls[i] = u

\* how often the calls a..b of the window returned the endpoint str
Count(str, a, b) == Cardinality({j \in a..b : String(hist.window[j]) = str})

\* The returns since activeUrls (K entries) last changed are entries of
\* activeUrls, each the cyclic successor of the one before, and any N
\* consecutive ones hold each active endpoint at least N div K and at most
\* ceil(N / K) times.
Rotates ==
    LET w == hist.window
        K == Len(activeUrls)
    IN  /\ \A i \in 1..Len(w) : \E k \in 1..K : activeUrls[k] = w[i]
        /\ \A i \in 1..(Len(w) - 1) : Pos(w[i + 1]) = (Pos(w[i]) % K) + 1
        /\ \A a, b \in 1..Len(w) :
              a <= b =>
                \A k \in 1..K :
                    LET N == b - a + 1
                        c == Count(String(activeUrls[k]), a, b)
                    IN  /\ c >= N \div K
                        /\ c <= (N + K - 1) \div K

\* C3: while activeUrls (K entries) is not changed, any N consecutive
\* GetNextURL calls return each active endpoint at least N div K and at most
\* ceil(N / K) times, and each call returns the cyclic successor of the
\* entry the call before returned; K = 3 and N = 6 give each exactly twice.
C3_FairRotation ==
    /\ Rotates
    /\ (Len(activeUrls) = 3 /\ Len(hist.window) >= 6) =>
          \A k \in 1..3 :
              Count(String(activeUrls[k]), Len(hist.window) - 5, Len(hist.window)) = 2

\* six calls in a row on three unchanged endpoints
C3_Witness ==
    /\ Len(activeUrls) = 3
    /\ Len(hist.window) = 6

\* a step in which RemoveURL is called for the endpoint str, which is active
Removes(str) ==
    /\ InActive(str)
    /\ \E u \in removedUrls' \ removedUrls : String(u) = str

\* seq without the entries whose string is str
Without(seq, str) == SelectSeq(seq, LAMBDA u : String(u) # str)

\* C4: RemoveURL(E) for an active E (given as any pointer with E's string)
\* takes E out of activeUrls and puts it into removedUrls, keeps the order of
\* the other entries, and from then until E is reinstated no GetNextURL call
\* returns E and the calls rotate over the remaining entries, whatever the
\* counter was.
C4_RemoveTakesEndpointOutOfRotation ==
    /\ [][\A str \in Hosts :
            Removes(str) =>
                /\ ~InActive(str)'
                /\ InRemoved(str)'
                /\ activeUrls' = Without(activeUrls, str)]_vars
    /\ [](\A i \in 1..Len(hist.window) : ~InRemoved(String(hist.window[i])))
    /\ []Rotates

\* E2 of three endpoints was removed through a pointer that is not the
\* stored entry while the counter was 1, and three calls followed
C4_Witness ==
    /\ Len(Configured) = 3
    /\ \E u \in removedUrls : String(u) = "E2" /\ u.id # 0
    /\ Len(activeUrls) = 2
    /\ Len(hist.window) = 3
    /\ currentIndex = 4

\* C5: RemoveURL for an endpoint that is not in activeUrls (already removed,
\* or never configured) leaves activeUrls, removedUrls (its number of
\* entries too) and currentIndex unchanged.
C5_RemoveOfAbsentIsNoOp ==
    [][CallRemoveOther => UNCHANGED <<activeUrls, removedUrls, currentIndex>>]_vars

\* C6: once a SendRequest call has received an answer with a status other
\* than 200 it has ended, with the outcome NON_SUCCESS_STATUS: it makes no
\* further GetNextURL call and sends no further request.
C6_Non200EndsTheCall ==
    call.non200 =>
        /\ dpc = "done"
        /\ call.outcome = "NON_SUCCESS_STATUS"
        /\ ~call.again

\* the range of CheckAndRestoreUrls is over (the lock is still held)
Ranged == ppc = "ranging" /\ toVisit = {}

\* C7: one CheckAndRestoreUrls probes every key removedUrls held when it
\* began, whatever the other probes answered; every endpoint whose probe
\* came back without transport error and with status 200 is then in
\* activeUrls, behind all entries that were there before, and no longer in
\* removedUrls; with one removed endpoint and a successful probe
\* removedUrls ends empty.
C7_TickReinstatesEveryHealthyEndpoint ==
    /\ ppc # "idle" =>
          /\ SubSeq(activeUrls, 1, Len(tick.active0)) = tick.active0
          /\ \A u \in tick.ok :
                /\ \E i \in (Len(tick.active0) + 1)..Len(activeUrls) :
                      String(activeUrls[i]) = String(u)
                /\ u \notin removedUrls
                /\ ~InRemoved(String(u))
    /\ Ranged =>
          /\ tick.ok \cup tick.bad = tick.removed0
          /\ (Cardinality(tick.removed0) = 1 /\ tick.ok = tick.removed0) =>
                removedUrls = {}

\* a tick over two removed endpoints is over: one probe succeeded, the
\* other one, made first, failed
C7_Witness ==
    /\ Ranged
    /\ Cardinality(tick.ok) = 1
    /\ Cardinality(tick.bad) = 1
    /\ Len(activeUrls) = Len(tick.active0) + 1
    /\ \E u \in tick.bad : u \in removedUrls

\* C8: an endpoint whose probe had a transport error or a status other than
\* 200 (another 2xx too) is still in removedUrls and not in activeUrls after
\* the tick.
C8_OnlyStatus200Reinstates ==
    ppc # "idle" =>
        \A u \in tick.bad : u \in removedUrls /\ ~InActive(String(u))

\* the strings of the entries of seq
StringsOf(seq) == {String(seq[i]) : i \in 1..Len(seq)}

\* C9: a SendRequest call all of whose requests fail at the transport level,
\* with no step of the prober meanwhile, and that began with K active
\* endpoints sends one request to each of them and none twice, calls
\* RemoveURL after each, and ends after K requests with NO_SERVERS,
\* activeUrls empty and all K endpoints in removedUrls; GetNextURL then
\* returns nil.
C9_AllFailingCallEmptiesActive ==
    (call.plain /\ call.outcome \in {"running", "NO_SERVERS"}) =>
        /\ Cardinality(call.tried) = call.requests
        /\ call.tried \subseteq StringsOf(call.active0)
        /\ call.requests \in {call.removes, call.removes + 1}
        /\ (dpc = "requesting" \/ dpc = "removing") <=> call.requests = call.removes + 1
        /\ Len(activeUrls) = Len(call.active0) - call.removes
        /\ call.outcome = "NO_SERVERS" =>
              /\ dpc = "done"
              /\ call.requests = Len(call.active0)
              /\ call.removes = Len(call.active0)
              /\ call.tried = StringsOf(call.active0)
              /\ activeUrls = <<>>
              /\ \A str \in StringsOf(call.active0) : InRemoved(str)
              /\ GetNextURL("request", activeUrls, currentIndex).url = NoURL

\* a call that began with three active endpoints and the counter at 1 has
\* ended with NO_SERVERS
C9_Witness ==
    /\ dpc = "done"
    /\ call.plain
    /\ call.outcome = "NO_SERVERS"
    /\ Len(call.active0) = 3
    /\ call.idx0 = 1

\* C10: a SendRequest call whose first request is answered with status 200
\* and a readable body sends that one request, logs the body, never calls
\* RemoveURL and ends with SUCCESS; activeUrls and removedUrls are as they
\* were when it began and currentIndex is one more.
C10_SuccessfulCallChangesOnlyCounter ==
    (call.plain /\ call.requests = 1 /\ call.logged) =>
        /\ dpc = "done"
        /\ call.outcome = "SUCCESS"
        /\ call.removes = 0
        /\ activeUrls = call.active0
        /\ removedUrls = call.removed0
        /\ currentIndex = call.idx0 + 1

\* such a call has ended on a balancer of two active and one removed
\* endpoint
C10_Witness ==
    /\ dpc = "done"
    /\ call.plain
    /\ call.requests = 1
    /\ call.logged
    /\ Len(activeUrls) = 2
    /\ removedUrls # {}

\* a probe of the prober or a request of the caller is outstanding
InFlight == ppc = "probing" \/ dpc = "requesting"

\* C11: the lock of the balancer is never held while a network round trip is
\* outstanding: no probe of CheckAndRestoreUrls and no request of
\* SendRequest is in flight while r.lock is held, so that GetNextURL and
\* RemoveURL never wait for a probe.
C11_LockNotHeldAcrossRoundTrip ==
    InFlight => lock = "free"

\* no endpoint is both in activeUrls and in removedUrls
Disjoint == \A str \in Strings : ~(InActive(str) /\ InRemoved(str))

\* activeUrls holds no endpoint twice
NoDuplicates ==
    \A i, j \in 1..Len(activeUrls) :
        i # j => String(activeUrls[i]) # String(activeUrls[j])

\* C12: in the program as main wires it (one caller of SendRequest, one
\* prober, RemoveURL called for endpoints that are active only), in every
\* reachable state, whatever the interleaving and the answers of the
\* backends, no endpoint is both in activeUrls and in removedUrls and
\* activeUrls holds no endpoint twice.
C12_WiredProgramKeepsRegistryInvariant ==
    Disjoint /\ NoDuplicates

\* E1 of the backends E1, E2, E3 was removed and reinstated (it now stands
\* behind E2), GetNextURL handed it to SendRequest, the request failed and
\* SendRequest is about to remove it again while the prober, in its next
\* tick, probes the removed E3
C12_Witness ==
    /\ Configured = <<"E1", "E2", "E3">>
    /\ Len(activeUrls) = 2
    /\ String(activeUrls[1]) = "E2"
    /\ String(activeUrls[2]) = "E1"
    /\ dpc = "removing"
    /\ String(serverURL) = "E1"
    /\ ppc = "probing"

\* C13: every backend of the configuration that parsed is, in every
\* reachable state, in exactly one of activeUrls and removedUrls (compared
\* by String()): never in neither, never in both. (Stated for the states
\* in which no critical section is running, those a caller can observe.)
C13_ConfiguredInExactlyOne ==
    AtRest =>
        \A i \in 1..Len(Configured) :
            InActive(Configured[i]) # InRemoved(Configured[i])

\* C14: GetNextURL returns nil exactly when activeUrls is empty at the call;
\* otherwise the slot it reads lies within activeUrls and it returns an
\* entry of activeUrls, whatever removals and reinstatements came before.
\* The endpoint SendRequest holds was returned to it by GetNextURL; a call
\* of SendRequest that the prober did not interleave with ends with
\* NO_SERVERS only on an empty activeUrls.
C14_NilExactlyWhenActiveEmpty ==
    LET r == GetNextURL("request", activeUrls, currentIndex)
    IN  /\ (r.url = NoURL) <=> (activeUrls = <<>>)
        /\ activeUrls = <<>> => r.idx = currentIndex
        /\ activeUrls # <<>> =>
              /\ Slot(currentIndex, Len(activeUrls)) \in 0..(Len(activeUrls) - 1)
              /\ r.url = activeUrls[Slot(currentIndex, Len(activeUrls)) + 1]
              /\ r.url \in Range(activeUrls)
        /\ dpc \in {"requesting", "removing"} =>
              /\ serverURL # NoURL
              /\ serverURL \in Range(activeUrls)
        /\ (call.plain /\ call.outcome = "NO_SERVERS") => activeUrls = <<>>
        /\ \A i \in 1..Len(hist.window) : hist.window[i] \in Range(activeUrls)

\* of the backends E1, E2, E3 the first two were removed and E1 was
\* reinstated (it stands behind E3); with the counter at 3 GetNextURL has
\* handed E1, the entry of slot 1, to SendRequest
C14_Witness ==
    /\ Len(Configured) = 3
    /\ Len(activeUrls) = 2
    /\ String(activeUrls[1]) = "E3"
    /\ String(activeUrls[2]) = "E1"
    /\ InRemoved("E2")
    /\ currentIndex = 4
    /\ dpc = "requesting"
    /\ serverURL = activeUrls[2]

\* C15: currentIndex never decreases and is never reset: a GetNextURL call
\* that returns an endpoint adds exactly one, and a GetNextURL call on an
\* empty activeUrls, RemoveURL and CheckAndRestoreUrls leave it unchanged,
\* also when activeUrls shrinks or grows.
C15_CounterOnlyAdvancesByGetNextURL ==
    [][/\ currentIndex' >= currentIndex
       /\ hist'.gets = hist.gets + 1 => currentIndex' = currentIndex + 1
       /\ hist'.gets = hist.gets => currentIndex' = currentIndex
       /\ (activeUrls' # activeUrls \/ removedUrls' # removedUrls) =>
             currentIndex' = currentIndex]_vars

\* four GetNextURL calls returned an endpoint, then activeUrls changed for
\* the last time (two of three backends are removed now), then two more calls
\* returned one
C15_Witness ==
    /\ Len(Configured) = 3
    /\ Len(activeUrls) = 1
    /\ Cardinality(removedUrls) = 2
    /\ Len(hist.window) = 2
    /\ currentIndex = 6

\* the goroutines inside a critical section of the balancer
Inside == {c \in Callers : InCS(c)} \cup (IF ppc # "idle" THEN {"prober"} ELSE {})

\* C16: GetNextURL, RemoveURL and CheckAndRestoreUrls exclude each other and
\* look atomic to each other: at most one goroutine is inside a critical
\* section, it is the one that holds the lock; from Lock to Unlock of
\* GetNextURL and of RemoveURL the balancer changes only by the call's own
\* writes, so GetNextURL returns the entry of the slot of the counter as
\* both were when it took the lock; and no GetNextURL or RemoveURL runs
\* between the append and the delete of a reinstatement.
C16_CriticalSectionsExcludeEachOther ==
    /\ Cardinality(Inside) <= 1
    /\ \A c \in Callers :
          /\ cpc[c] # "panicked"
          /\ InCS(c) => lock = c
          /\ cpc[c] \in {"getLen", "getLoad", "getRead", "getAdd", "remMark"} =>
                Snapshot = snap[c]
          /\ cpc[c] \in {"getRead", "getAdd"} => loc[c].idx = snap[c].idx
          /\ cpc[c] = "getAdd" =>
                loc[c].url = GetNextURL("request", snap[c].active, snap[c].idx).url
          /\ cpc[c] = "remLoop" =>
                /\ activeUrls = snap[c].active
                /\ removedUrls = MarkRemoved(snap[c].removed, loc[c].url)
                /\ currentIndex = snap[c].idx
    /\ ppc # "idle" => lock = "prober"
    /\ ppc = "deleting" =>
          /\ InActive(String(cur))
          /\ cur \in removedUrls
          /\ \A c \in Callers : ~InCS(c)

\* the prober stands between the append and the delete of a reinstatement
\* while one goroutine waits for the lock in GetNextURL and the other in
\* RemoveURL
C16_Witness ==
    /\ ppc = "deleting"
    /\ cpc["c1"] = "get"
    /\ cpc["c2"] = "remove"

\* C17: every SendRequest call ends, after at most K requests (K entries in
\* activeUrls at its start) when nothing is reinstated meanwhile: the call
\* goes from SELECTING to REQUESTING and from there to an end, and the only
\* way back to SELECTING is the one through RemoveURL after a transport
\* failure. Stated as: SendRequest comes to GetNextURL only on entry or from
\* RemoveURL.
C17_OnlyBackEdgeIsAfterRemoval ==
    [][(dpc' = "selecting" /\ dpc # "selecting") => dpc \in {"idle", "removing"}]_vars

\* C18: an endpoint that is in removedUrls and whose probes are all answered
\* with status 200 from some point on is eventually in activeUrls again,
\* and GetNextURL then returns an endpoint, whatever SendRequest does
\* meanwhile, provided the prober keeps running (weak fairness on its
\* steps).
C18_HealthyEndpointComesBack ==
    \A str \in Hosts :
        (str \in healthy /\ InRemoved(str)) ~>
            (InActive(str) /\ GetNextURL("request", activeUrls, currentIndex).url # NoURL)

\* a recovered endpoint, reinstated while SendRequest has a request
\* outstanding
C18_Witness ==
    /\ healthy = {"E1"}
    /\ InActive("E1")
    /\ ~InRemoved("E1")
    /\ dpc = "requesting"
    /\ ppc = "ranging"

\* removedUrls holds no two keys for one endpoint
OneKeyEach == \A u, v \in removedUrls : String(u) = String(v) => u = v

\* C19: with SendRequest called from two goroutines on one balancer beside
\* the prober, whatever the interleaving and the answers, no endpoint is
\* both in activeUrls and in removedUrls, removedUrls holds no two keys for
\* one endpoint and activeUrls holds no endpoint twice. (Stated for the
\* states in which no goroutine is inside a critical section.)
C19_TwoCallersKeepRegistryInvariant ==
    AtRest => (Disjoint /\ OneKeyEach /\ NoDuplicates)

\* C20: after any sequence of RemoveURL calls with any arguments and of
\* ticks with any probe answers, every endpoint in activeUrls or in
\* removedUrls is one of the backends handed to NewRoundRobinBalancer, and
\* GetNextURL returns no other endpoint.
C20_OnlyConfiguredEndpoints ==
    /\ \A u \in Range(activeUrls) \cup removedUrls : String(u) \in Range(backends)
    /\ \A i \in 1..Len(hist.window) : String(hist.window[i]) \in Range(backends)

====
